---- MODULE Spec2Model ----
(***************************************************************************)
(* PaperPal data_handling.py: the Paper and Newsletter record models and   *)
(* the PaperDatabase store (schema creation, validated inserts, scoped     *)
(* transactions).                                                          *)
(*                                                                         *)
(* Every attribute value of a record model instance is a tagged value      *)
(* [t |-> <python type name>, v |-> <payload>].  Text payloads are strings,*)
(* date payloads are sequences of one-character strings (so that parsing   *)
(* and string comparison are computed character by character), numeric     *)
(* and boolean payloads are integers (True = 1, False = 0).                *)
(***************************************************************************)
EXTENDS Integers, Sequences, FiniteSets, TLC

VARIABLES
    schema,       \* names of the tables present in the database file
    papers,       \* committed rows of table papers, in rowid order
    newsletters,  \* committed rows of table newsletters, in rowid order
    conn,         \* PaperDatabase.conn: "unset" before __init__, then "open"
    cursorConn,   \* the connection made by the most recent get_cursor()
    obj,          \* the record model instance the caller holds
    args,         \* the keyword arguments of the last constructor call
    lastOp,       \* the operation that ran last
    result        \* its outcome: "ok" or the exception raised

vars == <<schema, papers, newsletters, conn, cursorConn, obj, args, lastOp, result>>

---------------------------------------------------------------------------
(* Bounds of the model *)

\* total number of rows the two tables hold before the inserts stop
MaxRows == 2

---------------------------------------------------------------------------
(* Characters and strings *)

Digits == {"0", "1", "2", "3", "4", "5", "6", "7", "8", "9"}

DigitVal(c) ==
    CASE c = "0" -> 0 [] c = "1" -> 1 [] c = "2" -> 2 [] c = "3" -> 3
      [] c = "4" -> 4 [] c = "5" -> 5 [] c = "6" -> 6 [] c = "7" -> 7
      [] c = "8" -> 8 [] c = "9" -> 9

\* Unicode code point of the characters the date samples are made of
Ord(c) ==
    CASE c = " " -> 32 [] c = "-" -> 45 [] c = "/" -> 47
      [] c \in Digits -> 48 + DigitVal(c)
      [] c = "J" -> 74 [] c = "a" -> 97 [] c = "n" -> 110

\* Python's str > str: lexicographic on code points, a proper prefix is smaller
RECURSIVE StrGreaterFrom(_, _, _)
StrGreaterFrom(a, b, i) ==
    IF i > Len(a) THEN FALSE
    ELSE IF i > Len(b) THEN TRUE
    ELSE IF a[i] # b[i] THEN Ord(a[i]) > Ord(b[i])
    ELSE StrGreaterFrom(a, b, i + 1)

StrGreater(a, b) == StrGreaterFrom(a, b, 1)

---------------------------------------------------------------------------
(* datetime.datetime.strptime(s, '%Y-%m-%d') *)

\* directive %Y: \d\d\d\d
MatchYear(y) == Len(y) = 4 /\ \A i \in 1..4 : y[i] \in Digits

\* directive %m: 1[0-2]|0[1-9]|[1-9]
MatchMonth(m) ==
    \/ Len(m) = 2 /\ m[1] = "1" /\ m[2] \in {"0", "1", "2"}
    \/ Len(m) = 2 /\ m[1] = "0" /\ m[2] \in Digits \ {"0"}
    \/ Len(m) = 1 /\ m[1] \in Digits \ {"0"}

\* directive %d: 3[0-1]|[1-2]\d|0[1-9]|[1-9]| [1-9]
MatchDay(d) ==
    \/ Len(d) = 2 /\ d[1] = "3" /\ d[2] \in {"0", "1"}
    \/ Len(d) = 2 /\ d[1] \in {"1", "2"} /\ d[2] \in Digits
    \/ Len(d) = 2 /\ d[1] = "0" /\ d[2] \in Digits \ {"0"}
    \/ Len(d) = 1 /\ d[1] \in Digits \ {"0"}
    \/ Len(d) = 2 /\ d[1] = " " /\ d[2] \in Digits \ {"0"}

\* int() of a matched group (a leading space of %d is skipped)
RECURSIVE ToInt(_)
ToInt(s) ==
    IF Len(s) = 0 THEN 0
    ELSE IF s[Len(s)] = " " THEN 0
    ELSE 10 * ToInt(SubSeq(s, 1, Len(s) - 1)) + DigitVal(s[Len(s)])

IsLeap(y) == (y % 4 = 0 /\ y % 100 # 0) \/ y % 400 = 0

DaysInMonth(y, m) ==
    IF m = 2 THEN (IF IsLeap(y) THEN 29 ELSE 28)
    ELSE IF m \in {4, 6, 9, 11} THEN 30 ELSE 31

NoDate == [ok |-> FALSE, y |-> 0, m |-> 0, d |-> 0]

\* position of the hyphen that ends the month group, 0 when there is none
MonthEnd(s) ==
    IF Len(s) >= 7 /\ s[7] = "-" THEN 7
    ELSE IF Len(s) >= 8 /\ s[8] = "-" THEN 8
    ELSE 0

\* the whole string must match <Y>-<m>-<d> and name a day of the calendar;
\* the result is the parsed date, or NoDate where strptime raises ValueError
Strptime(s) ==
    IF Len(s) < 8 \/ ~MatchYear(SubSeq(s, 1, 4)) \/ s[5] # "-" \/ MonthEnd(s) = 0
    THEN NoDate
    ELSE LET p  == MonthEnd(s)
             ms == SubSeq(s, 6, p - 1)
             ds == SubSeq(s, p + 1, Len(s))
         IN  IF ~MatchMonth(ms) \/ ~MatchDay(ds) THEN NoDate
             ELSE LET y == ToInt(SubSeq(s, 1, 4))
                      m == ToInt(ms)
                      d == ToInt(ds)
                  IN  IF y < 1 \/ d > DaysInMonth(y, m) THEN NoDate
                      ELSE [ok |-> TRUE, y |-> y, m |-> m, d |-> d]

---------------------------------------------------------------------------
(* Tagged values *)

TextVal(s)  == [t |-> "str", v |-> s]
IntVal(n)   == [t |-> "int", v |-> n]
FloatVal(n) == [t |-> "float", v |-> n]
BoolVal(b)  == [t |-> "bool", v |-> IF b THEN 1 ELSE 0]
\* None held by a text attribute
NoneText == [t |-> "NoneType", v |-> ""]

IsNone(val) == val.t = "NoneType"

---------------------------------------------------------------------------
(* Outcomes of a call *)

Exc(type, msg, field) == [exc |-> type, msg |-> msg, field |-> field]
Ok == Exc("none", "ok", "")
\* pydantic's ValidationError, raised by a record model's constructor
ValidationError == Exc("ValidationError", "validation error", "")
\* the exception a failing cursor.execute raises
StorageError == Exc("sqlite3.OperationalError", "disk I/O error", "")
IntegrityError == Exc("sqlite3.IntegrityError", "NOT NULL constraint failed", "")

---------------------------------------------------------------------------
(* Record models *)

NewsletterFields == <<"content", "start_date", "end_date", "date_sent">>

PaperFields ==
    <<"title", "abstract", "date", "date_run", "score", "rationale",
      "related", "cosine_similarity", "url", "embedding_model">>

Range(seq) == {seq[i] : i \in 1..Len(seq)}

\* the annotation of a field: the type pydantic requires of its value
FieldTypeOk(field, val) ==
    CASE field = "score" -> val.t \in {"int", "float"}
      [] field = "related" -> val.t = "bool"
      [] field = "cosine_similarity" -> val.t = "float"
      [] OTHER -> val.t = "str"

\* score_range with the upper bound excluded
score_range_exclusive(v) ==
    IF ~(0 <= v /\ v < 10)
    THEN [raised |-> TRUE, v |-> v]
    ELSE [raised |-> FALSE, v |-> v]

\* Paper.score_range: raises ValueError outside [0, 10], else returns v
score_range(v) ==
    IF ~(0 <= v /\ v <= 10)
    THEN [raised |-> TRUE, v |-> v]
    ELSE [raised |-> FALSE, v |-> v]

NoObj == [cls |-> "none"]

\* Newsletter(**a): every field present and a str
Newsletter(a) ==
    IF \E f \in Range(NewsletterFields) : f \notin DOMAIN a \/ ~FieldTypeOk(f, a[f])
    THEN [raised |-> TRUE, obj |-> NoObj]
    ELSE [raised |-> FALSE,
          obj |-> [cls |-> "Newsletter", f |-> [f \in Range(NewsletterFields) |-> a[f]]]]

\* Paper(**a): every field present and of its annotated type, then the
\* field validator of score
Paper(a) ==
    IF \E f \in Range(PaperFields) : f \notin DOMAIN a \/ ~FieldTypeOk(f, a[f])
    THEN [raised |-> TRUE, obj |-> NoObj]
    ELSE LET r == score_range(a.score.v)
         IN  IF r.raised THEN [raised |-> TRUE, obj |-> NoObj]
             ELSE [raised |-> FALSE,
                   obj |-> [cls |-> "Paper",
                            f |-> [f \in Range(PaperFields) |->
                                     IF f = "score" THEN [a[f] EXCEPT !.v = r.v]
                                     ELSE a[f]]]]

\* instance.field = val: the models are not frozen and do not validate
\* assignments, so the value is stored as given
SetAttrValue(o, field, val) == [o EXCEPT !.f[field] = val]

---------------------------------------------------------------------------
(* The database file: schema, column affinities, INSERT *)

\* CREATE TABLE name, without IF NOT EXISTS: raises when the table exists
CreateTable(sch, rows, name) ==
    IF name \in sch
    THEN [raised |-> TRUE, schema |-> sch, rows |-> rows]
    ELSE [raised |-> FALSE, schema |-> sch \cup {name}, rows |-> <<>>]

\* CREATE TABLE IF NOT EXISTS name: a table that exists is left as it is
CreateTableIfNotExists(sch, rows, name) ==
    IF name \in sch
    THEN [raised |-> FALSE, schema |-> sch, rows |-> rows]
    ELSE [raised |-> FALSE, schema |-> sch \cup {name}, rows |-> <<>>]

\* declared type of a column and the affinity SQLite derives from it
ColumnAffinity(col) ==
    CASE col \in {"score", "cosine_similarity"} -> "REAL"
      [] col = "related" -> "NUMERIC"
      [] OTHER -> "TEXT"

\* the value a column holds for a bound parameter: a bool is bound as an
\* integer, and a REAL column turns an integer into a float
Bind(col, val) ==
    CASE ColumnAffinity(col) = "REAL" /\ val.t \in {"bool", "int"} -> FloatVal(val.v)
      [] ColumnAffinity(col) = "NUMERIC" /\ val.t = "bool" -> IntVal(val.v)
      [] OTHER -> val

\* INTEGER PRIMARY KEY AUTOINCREMENT: one more than the largest id given
NextId(table) == IF table = <<>> THEN 1 ELSE table[Len(table)].id + 1

\* cursor.execute('INSERT INTO t (columns) VALUES (?, ...)', params) on the
\* transaction's copy of the table; fault: the storage fails the statement.
\* A failed statement leaves the table as it was.
ExecuteInsert(table, columns, params, fault) ==
    IF fault THEN [exc |-> StorageError, rows |-> table]
    ELSE IF \E i \in 1..Len(params) : IsNone(params[i])
    THEN [exc |-> IntegrityError, rows |-> table]
    ELSE [exc |-> Ok,
          rows |-> Append(table,
                     [id |-> NextId(table),
                      f  |-> [c \in Range(columns) |->
                                Bind(c, params[CHOOSE i \in 1..Len(columns) :
                                                 columns[i] = c])]])]

\* the parameter tuple with date and date_run in each other's place
PaperParamsSwapped(o) ==
    <<o.f.title, o.f.abstract, o.f.date_run, o.f.date, o.f.score,
      o.f.rationale, o.f.related, o.f.cosine_similarity, o.f.url,
      o.f.embedding_model>>

\* column list and parameter tuple of insert_paper's INSERT
PaperParams(o) ==
    <<o.f.title, o.f.abstract, o.f.date, o.f.date_run, o.f.score,
      o.f.rationale, o.f.related, o.f.cosine_similarity, o.f.url,
      o.f.embedding_model>>

\* column list and parameter tuple of insert_newsletter's INSERT
NewsletterParams(o) ==
    <<o.f.content, o.f.start_date, o.f.end_date, o.f.date_sent>>

---------------------------------------------------------------------------
(* Connections: "none" (not made), "in transaction", "committed",         *)
(* "rolled back" (open, the last transaction ended so), "closed"          *)

\* sqlite3.connect(path): an open connection, no transaction yet
create_connection == "open"

\* a get_cursor that commits but never rolls back: a body that raised
\* leaves its transaction open
get_cursor_no_rollback(committed, working, raised) ==
    IF raised
    THEN [conn |-> "in transaction", rows |-> committed]
    ELSE [conn |-> "committed", rows |-> working]

\* a get_cursor that commits whether or not the body raised
get_cursor_always_commit(committed, working, raised) ==
    [conn |-> "committed", rows |-> working]

\* get_cursor: leaving `with connection` commits when the body ended
\* normally and rolls back when it raised; it does not close the connection.
\* committed: the table before; working: the transaction's copy of it
get_cursor(committed, working, raised) ==
    IF raised
    THEN [conn |-> "rolled back", rows |-> committed]
    ELSE [conn |-> "committed", rows |-> working]

---------------------------------------------------------------------------
(* Validation at the insert boundary *)

\* the required-field check with only hasattr, without `is None`
FirstMissingAbsentOnly(o, fields) ==
    LET bad == {i \in 1..Len(fields) : fields[i] \notin DOMAIN o.f}
    IN  IF bad = {} THEN 0 ELSE CHOOSE i \in bad : \A j \in bad : i <= j

\* index of the first required field that is absent or None, 0 if none is
FirstMissing(o, fields) ==
    LET bad == {i \in 1..Len(fields) :
                  fields[i] \notin DOMAIN o.f \/ IsNone(o.f[fields[i]])}
    IN  IF bad = {} THEN 0 ELSE CHOOSE i \in bad : \A j \in bad : i <= j

\* strptime over a list of values in order: TypeError for a non-str (not
\* caught by `except ValueError`), ValueError for one that does not parse
ParseAll(vals) ==
    LET bad == {i \in 1..Len(vals) : vals[i].t # "str" \/ ~Strptime(vals[i].v).ok}
    IN  IF bad = {} THEN Ok
        ELSE LET k == CHOOSE i \in bad : \A j \in bad : i <= j
             IN  IF vals[k].t # "str"
                 THEN Exc("TypeError", "strptime() argument 1 must be str", "")
                 ELSE Exc("ValueError", "Dates must be in 'YYYY-MM-DD' format", "")

\* the checks of insert_paper before it asks for a cursor
ValidatePaper(o) ==
    LET k == FirstMissing(o, PaperFields)
    IN  IF k # 0
        THEN Exc("ValueError", "Paper object is missing required field", PaperFields[k])
        ELSE IF o.f.score.t \notin {"bool", "int", "float"}
        THEN Exc("ValueError", "Score must be a number", "")
        ELSE IF o.f.related.t # "bool"
        THEN Exc("ValueError", "Related must be a boolean", "")
        ELSE IF o.f.cosine_similarity.t # "float"
        THEN Exc("ValueError", "Cosine similarity must be a float", "")
        ELSE ParseAll(<<o.f.date, o.f.date_run>>)

\* the checks of insert_newsletter before it asks for a cursor
ValidateNewsletter(o) ==
    LET k == FirstMissing(o, NewsletterFields)
    IN  IF k # 0
        THEN Exc("ValueError", "Newsletter object is missing required field",
                 NewsletterFields[k])
        ELSE LET d == ParseAll(<<o.f.start_date, o.f.end_date, o.f.date_sent>>)
             IN  IF d # Ok THEN d
                 ELSE IF StrGreater(o.f.start_date.v, o.f.end_date.v)
                 THEN Exc("ValueError", "start_date cannot be after end_date", "")
                 ELSE Ok

---------------------------------------------------------------------------
(* The values the caller passes *)

\* "2024-01-15"
D20240115 == <<"2", "0", "2", "4", "-", "0", "1", "-", "1", "5">>
\* "2024-01-16"
D20240116 == <<"2", "0", "2", "4", "-", "0", "1", "-", "1", "6">>
\* "2024-01-01"
D20240101 == <<"2", "0", "2", "4", "-", "0", "1", "-", "0", "1">>
\* "2024-02-01"
D20240201 == <<"2", "0", "2", "4", "-", "0", "2", "-", "0", "1">>
\* "2024-02-02"
D20240202 == <<"2", "0", "2", "4", "-", "0", "2", "-", "0", "2">>
\* "2024-9-01"
D2024901 == <<"2", "0", "2", "4", "-", "9", "-", "0", "1">>
\* "2024-10-01"
D20241001 == <<"2", "0", "2", "4", "-", "1", "0", "-", "0", "1">>
\* "2024-1-5"
D202415 == <<"2", "0", "2", "4", "-", "1", "-", "5">>
\* "2024/01/01"
DSlashes == <<"2", "0", "2", "4", "/", "0", "1", "/", "0", "1">>
\* "Jan 1 2024"
DJan1 == <<"J", "a", "n", " ", "1", " ", "2", "0", "2", "4">>

BasePaper ==
    [title |-> TextVal("Attention Is All You Need"), abstract |-> TextVal("..."),
     date |-> TextVal(D20240115), date_run |-> TextVal(D20240116),
     score |-> FloatVal(8), rationale |-> TextVal("highly relevant"),
     related |-> BoolVal(TRUE), cosine_similarity |-> FloatVal(1),
     url |-> TextVal("https://..."), embedding_model |-> TextVal("text-embedding-3")]

\* keyword arguments of Paper(...): the base paper, and the base paper with
\* one argument changed or left out
PaperArgs ==
    {BasePaper}
    \cup {[BasePaper EXCEPT !.title = TextVal(""), !.abstract = TextVal(""),
                             !.rationale = TextVal("")]}
    \cup {[BasePaper EXCEPT !.date = TextVal(d)] : d \in {D202415, DSlashes}}
    \cup {[BasePaper EXCEPT !.score = IntVal(n)] : n \in {-1, 0, 10, 11}}
    \cup {[BasePaper EXCEPT !.title = NoneText]}
    \cup {[f \in Range(PaperFields) \ {"score"} |-> BasePaper[f]]}

BaseNewsletter ==
    [content |-> TextVal("..."), start_date |-> TextVal(D20240101),
     end_date |-> TextVal(D20240201), date_sent |-> TextVal(D20240202)]

\* keyword arguments of Newsletter(...)
NewsletterArgs ==
    {[BaseNewsletter EXCEPT !.start_date = TextVal(p[1]), !.end_date = TextVal(p[2])] :
        p \in {<<D20240101, D20240201>>, <<D20240201, D20240101>>,
               <<D2024901, D20241001>>,
               <<D20241001, D2024901>>, <<D20240101, DSlashes>>}}
    \cup {[BaseNewsletter EXCEPT !.date_sent = TextVal(DJan1)]}
    \cup {[f \in Range(NewsletterFields) \ {"content"} |-> BaseNewsletter[f]]}

\* attribute assignments the caller makes on an instance it holds
Assignments(cls) ==
    IF cls = "Paper"
    THEN {<<"score", IntVal(11)>>, <<"title", NoneText>>,
          <<"cosine_similarity", IntVal(1)>>}
    ELSE {<<"content", NoneText>>}

---------------------------------------------------------------------------
(* The state machine *)

Init ==
    /\ schema = {}
    /\ papers = <<>>
    /\ newsletters = <<>>
    /\ conn = "unset"
    /\ cursorConn = "none"
    /\ obj = NoObj
    /\ args = <<>>
    /\ lastOp = "none"
    /\ result = Ok

\* PaperDatabase(db_path): __init__ keeps a connection in self.conn, then
\* _create_table creates the two tables inside get_cursor
Open ==
    /\ lastOp' = "__init__"
    /\ conn' = create_connection
    /\ LET p == CreateTableIfNotExists(schema, papers, "papers")
           n == IF p.raised THEN [raised |-> TRUE, schema |-> schema, rows |-> newsletters]
                ELSE CreateTableIfNotExists(p.schema, newsletters, "newsletters")
           c == get_cursor(<<schema, papers, newsletters>>,
                           <<n.schema, p.rows, n.rows>>, n.raised)
       IN  /\ result' = IF n.raised
                        THEN Exc("sqlite3.OperationalError", "table already exists", "")
                        ELSE Ok
           /\ cursorConn' = c.conn
           /\ schema' = c.rows[1]
           /\ papers' = c.rows[2]
           /\ newsletters' = c.rows[3]
    /\ UNCHANGED <<obj, args>>

\* paper = Paper(**a)
NewPaper(a) ==
    /\ lastOp' = "Paper"
    /\ LET r == Paper(a)
       IN  /\ obj' = r.obj
           /\ args' = a
           /\ result' = IF r.raised THEN ValidationError ELSE Ok
    /\ UNCHANGED <<schema, papers, newsletters, conn, cursorConn>>

\* newsletter = Newsletter(**a)
NewNewsletter(a) ==
    /\ lastOp' = "Newsletter"
    /\ LET r == Newsletter(a)
       IN  /\ obj' = r.obj
           /\ args' = a
           /\ result' = IF r.raised THEN ValidationError ELSE Ok
    /\ UNCHANGED <<schema, papers, newsletters, conn, cursorConn>>

\* instance.field = val
SetAttr(field, val) ==
    /\ obj.cls # "none"
    /\ field \in DOMAIN obj.f
    /\ obj' = SetAttrValue(obj, field, val)
    /\ obj' # obj
    /\ lastOp' = "setattr"
    /\ result' = Ok
    /\ UNCHANGED <<schema, papers, newsletters, conn, cursorConn, args>>

\* db.insert_paper(obj); fault: the storage fails the INSERT statement
InsertPaperWith(fault) ==
    /\ conn = "open"
    /\ obj.cls # "none"
    /\ Len(papers) + Len(newsletters) < MaxRows
    /\ lastOp' = "insert_paper"
    /\ LET v == ValidatePaper(obj)
       IN  IF v # Ok
           THEN result' = v /\ UNCHANGED <<papers, cursorConn>>
           ELSE LET x == ExecuteInsert(papers, PaperFields, PaperParams(obj), fault)
                    c == get_cursor(papers, x.rows, x.exc # Ok)
                IN  /\ result' = x.exc
                    /\ papers' = c.rows
                    /\ cursorConn' = c.conn
    /\ UNCHANGED <<schema, newsletters, conn, obj, args>>

InsertPaper == \E fault \in BOOLEAN : InsertPaperWith(fault)

\* db.insert_newsletter(obj); fault: the storage fails the INSERT statement
InsertNewsletterWith(fault) ==
    /\ conn = "open"
    /\ obj.cls # "none"
    /\ Len(papers) + Len(newsletters) < MaxRows
    /\ lastOp' = "insert_newsletter"
    /\ LET v == ValidateNewsletter(obj)
       IN  IF v # Ok
           THEN result' = v /\ UNCHANGED <<newsletters, cursorConn>>
           ELSE LET x == ExecuteInsert(newsletters, NewsletterFields,
                                       NewsletterParams(obj), fault)
                    c == get_cursor(newsletters, x.rows, x.exc # Ok)
                IN  /\ result' = x.exc
                    /\ newsletters' = c.rows
                    /\ cursorConn' = c.conn
    /\ UNCHANGED <<schema, papers, conn, obj, args>>

InsertNewsletter == \E fault \in BOOLEAN : InsertNewsletterWith(fault)

Next ==
    \/ Open
    \/ \E a \in PaperArgs : NewPaper(a)
    \/ \E a \in NewsletterArgs : NewNewsletter(a)
    \/ \E x \in Assignments(obj.cls) : SetAttr(x[1], x[2])
    \/ InsertPaper
    \/ InsertNewsletter

Spec == Init /\ [][Next]_vars

---------------------------------------------------------------------------
(* Vocabulary of the properties *)

InsertErrors == {"ValueError", "TypeError"}

\* Python's == between two values: numbers (bool, int, float) by numeric value
PyEq(a, b) ==
    IF a.t \in {"bool", "int", "float"} /\ b.t \in {"bool", "int", "float"}
    THEN a.v = b.v
    ELSE a = b

\* s has the shape YYYY-MM-DD: four, two and two digits between hyphens
IsoForm(s) ==
    /\ Len(s) = 10
    /\ \A i \in {1, 2, 3, 4, 6, 7, 9, 10} : s[i] \in Digits
    /\ s[5] = "-" /\ s[8] = "-"

\* calendar order of two parsed dates
DateAfter(a, b) ==
    \/ a.y > b.y
    \/ a.y = b.y /\ a.m > b.m
    \/ a.y = b.y /\ a.m = b.m /\ a.d > b.d

PaperDates == {"date", "date_run"}
NewsletterDates == {"start_date", "end_date", "date_sent"}

\* o lacks a field or holds None in it, holds a value of another type than
\* the field's, or holds a date that is not of the shape YYYY-MM-DD
Defective(o, fields, dates) ==
    \E f \in Range(fields) :
        \/ f \notin DOMAIN o.f
        \/ IsNone(o.f[f])
        \/ ~FieldTypeOk(f, o.f[f])
        \/ f \in dates /\ ~IsoForm(o.f[f].v)

\* every date of o has the shape YYYY-MM-DD and names a day of the calendar
DatesWellFormed(o, dates) ==
    \A f \in dates : IsoForm(o.f[f].v) /\ Strptime(o.f[f].v).ok

ValidPaperRecord(o) ==
    /\ o.cls = "Paper"
    /\ \A f \in Range(PaperFields) : FieldTypeOk(f, o.f[f])
    /\ 0 <= o.f.score.v /\ o.f.score.v <= 10
    /\ DatesWellFormed(o, PaperDates)

ValidNewsletterRecord(o) ==
    /\ o.cls = "Newsletter"
    /\ \A f \in Range(NewsletterFields) : FieldTypeOk(f, o.f[f])
    /\ DatesWellFormed(o, NewsletterDates)
    /\ ~DateAfter(Strptime(o.f.start_date.v), Strptime(o.f.end_date.v))

\* after is before plus one row that holds the fields of o under a fresh id
AppendedRowOf(before, after, o, fields) ==
    /\ Len(after) = Len(before) + 1
    /\ SubSeq(after, 1, Len(before)) = before
    /\ LET row == after[Len(after)]
       IN  /\ DOMAIN row.f = Range(fields)
           /\ \A f \in Range(fields) : PyEq(row.f[f], o.f[f])
           /\ \A i \in 1..Len(before) : before[i].id # row.id

\* o is a Newsletter whose start and end dates parse
OrderCheckReached(o) ==
    /\ o.cls = "Newsletter"
    /\ FirstMissing(o, NewsletterFields) = 0
    /\ ParseAll(<<o.f.start_date, o.f.end_date, o.f.date_sent>>) = Ok

OrderError == Exc("ValueError", "start_date cannot be after end_date", "")

---------------------------------------------------------------------------
(* The properties *)

\* C1: every insert_paper or insert_newsletter call whose record is
\* defective (a required field missing or None, a field of the wrong type, a
\* date not of the shape YYYY-MM-DD) raises a validation error before a
\* connection is made, and leaves both tables as they were.
C1_DefectiveRecordIsRejectedWithoutEffect ==
    [][/\ (lastOp' = "insert_paper" /\ Defective(obj, PaperFields, PaperDates))
            => /\ result'.exc \in InsertErrors
               /\ cursorConn' = cursorConn
               /\ papers' = papers /\ newsletters' = newsletters
       /\ (lastOp' = "insert_newsletter"
            /\ Defective(obj, NewsletterFields, NewsletterDates))
            => /\ result'.exc \in InsertErrors
               /\ cursorConn' = cursorConn
               /\ papers' = papers /\ newsletters' = newsletters]_vars

\* What does hold of the code for C1: a call that raises a validation error
\* has made no connection and leaves both tables as they were.
ValidationErrorHasNoEffect ==
    [][(lastOp' \in {"insert_paper", "insert_newsletter"}
         /\ result'.exc \in InsertErrors)
        => /\ cursorConn' = cursorConn
           /\ papers' = papers /\ newsletters' = newsletters]_vars

\* C2: insert_newsletter rejects every Newsletter whose start date is after
\* its end date with "start_date cannot be after end_date", and no row of
\* newsletters ever has its start date after its end date.
C2_NoNewsletterStartsAfterItEnds ==
    /\ (lastOp = "insert_newsletter" /\ OrderCheckReached(obj)
         /\ DateAfter(Strptime(obj.f.start_date.v), Strptime(obj.f.end_date.v)))
        => result = OrderError
    /\ \A i \in 1..Len(newsletters) :
         ~DateAfter(Strptime(newsletters[i].f.start_date.v),
                    Strptime(newsletters[i].f.end_date.v))

\* C9: for start and end dates that pass insert_newsletter's format check,
\* start_date > end_date as strings holds exactly when the start date is
\* after the end date in the calendar.
C9_StringOrderIsCalendarOrder ==
    (lastOp = "insert_newsletter" /\ OrderCheckReached(obj))
    => (StrGreater(obj.f.start_date.v, obj.f.end_date.v)
         <=> DateAfter(Strptime(obj.f.start_date.v), Strptime(obj.f.end_date.v)))

\* C10: every row of papers has 0 <= score <= 10.
C10_StoredScoresInRange ==
    \A i \in 1..Len(papers) :
        0 <= papers[i].f.score.v /\ papers[i].f.score.v <= 10

\* C3: insert of a valid record (types right, score in [0, 10], dates
\* well-formed, start not after end) raises no validation error, succeeds
\* whenever the storage does not fail, and on success its table is the table
\* before plus one row with the record's field values; the rows stored
\* before and the other table are as they were.
C3_ValidInsertAppendsExactlyTheRecord ==
    [][/\ (lastOp' = "insert_paper" /\ ValidPaperRecord(obj))
            => /\ result' \in {Ok, StorageError}
               /\ InsertPaperWith(FALSE) => result' = Ok
               /\ result' = Ok => /\ AppendedRowOf(papers, papers', obj, PaperFields)
                                  /\ newsletters' = newsletters
       /\ (lastOp' = "insert_newsletter" /\ ValidNewsletterRecord(obj))
            => /\ result' \in {Ok, StorageError}
               /\ InsertNewsletterWith(FALSE) => result' = Ok
               /\ result' = Ok => /\ AppendedRowOf(newsletters, newsletters', obj,
                                                   NewsletterFields)
                                  /\ papers' = papers]_vars

\* a valid paper was inserted into a database that held a row in each table
C3_Witness ==
    /\ lastOp = "insert_paper" /\ result = Ok
    /\ ValidPaperRecord(obj)
    /\ Len(papers) = 2
    /\ PyEq(papers[2].f.score, obj.f.score)

\* C4: opening the store on a database that has its tables raises no error
\* and leaves the schema and every row of both tables as they were.
C4_OpenIsIdempotent ==
    [][(lastOp' = "__init__" /\ schema = {"papers", "newsletters"})
        => /\ result' = Ok
           /\ schema' = schema
           /\ papers' = papers
           /\ newsletters' = newsletters]_vars

\* the store was opened again on a database that holds rows
C4_Witness ==
    /\ lastOp = "__init__" /\ result = Ok
    /\ Len(papers) >= 1 /\ Len(newsletters) >= 1

\* C5 as stated: between calls the store holds no open connection.
C5_NoOpenConnectionBetweenCalls ==
    /\ conn \in {"unset", "closed"}
    /\ cursorConn \in {"none", "closed"}

\* C5 as amended: the connection of a get_cursor is never left in a
\* transaction: it is committed when the call succeeded and rolled back when
\* the statement raised; the store does not close it, and the connection made
\* by __init__ stays open in self.conn.
C5_TransactionsAreSettled ==
    /\ cursorConn \in {"none", "committed", "rolled back"}
    /\ (lastOp \in {"__init__", "insert_paper", "insert_newsletter"} /\ result = Ok)
        => cursorConn = "committed"
    /\ result.exc \in {"sqlite3.OperationalError", "sqlite3.IntegrityError"}
        => cursorConn = "rolled back"
    /\ lastOp # "none" /\ schema # {} => conn = "open"

\* an insert failed in the storage and its transaction was rolled back
C5_Witness ==
    /\ lastOp = "insert_newsletter" /\ result = StorageError
    /\ cursorConn = "rolled back" /\ conn = "open"

\* C6: when the storage fails the INSERT of a record that passed validation,
\* the call raises the storage error, its transaction is rolled back, and
\* both tables are as they were.
C6_StorageFailureRollsBack ==
    [][/\ (lastOp' = "insert_paper" /\ ValidatePaper(obj) = Ok /\ InsertPaperWith(TRUE))
            => /\ result' = StorageError
               /\ cursorConn' = "rolled back"
               /\ papers' = papers /\ newsletters' = newsletters
       /\ (lastOp' = "insert_newsletter" /\ ValidateNewsletter(obj) = Ok
            /\ InsertNewsletterWith(TRUE))
            => /\ result' = StorageError
               /\ cursorConn' = "rolled back"
               /\ papers' = papers /\ newsletters' = newsletters]_vars

\* the INSERT of a valid paper failed in the storage, with a row stored before
C6_Witness ==
    /\ lastOp = "insert_paper" /\ result = StorageError
    /\ ValidatePaper(obj) = Ok
    /\ Len(papers) = 1

\* C7: Paper(...) with a numeric score below 0 or above 10 raises and makes
\* no instance; with 0 <= score <= 10 (0 and 10 included) it succeeds when
\* the other arguments are right, and the instance holds the score given.
C7_ScoreRangeAtConstruction ==
    (lastOp = "Paper" /\ "score" \in DOMAIN args /\ args.score.t \in {"int", "float"})
    => /\ (args.score.v < 0 \/ args.score.v > 10)
            => (result = ValidationError /\ obj = NoObj)
       /\ (0 <= args.score.v /\ args.score.v <= 10)
            => /\ (\A f \in Range(PaperFields) : FieldTypeOk(f, args[f]))
                    => result = Ok
               /\ result = Ok => (obj.cls = "Paper" /\ obj.f.score = args.score)

\* a Paper was constructed with the score 10
C7_Witness ==
    /\ lastOp = "Paper" /\ result = Ok
    /\ args.score = IntVal(10)
    /\ obj.f.score = IntVal(10)

\* C8 as stated: no row of papers has an empty title, abstract or rationale.
C8_NoEmptyText ==
    \A i \in 1..Len(papers) :
        \A f \in {"title", "abstract", "rationale"} : papers[i].f[f].v # ""

\* C8 as amended: title, abstract and rationale are never None: no
\* constructed Paper and no row of papers holds None in one of them, and
\* insert_paper rejects a Paper that holds None in one of them as missing a
\* required field; an empty string is accepted.
C8_NoNullText ==
    /\ \A i \in 1..Len(papers) :
         \A f \in {"title", "abstract", "rationale"} : papers[i].f[f].t = "str"
    /\ (lastOp = "Paper"
         /\ \E f \in {"title", "abstract", "rationale"} :
               f \notin DOMAIN args \/ IsNone(args[f]))
        => (result = ValidationError /\ obj = NoObj)
    /\ (lastOp = "insert_paper" /\ obj.cls = "Paper"
         /\ \E f \in {"title", "abstract", "rationale"} : IsNone(obj.f[f]))
        => /\ result.exc = "ValueError"
           /\ result.msg = "Paper object is missing required field"

\* a paper with empty texts is stored, and the insert of a paper whose title
\* is None was rejected
C8_Witness ==
    /\ lastOp = "insert_paper" /\ obj.cls = "Paper" /\ IsNone(obj.f.title)
    /\ result.exc = "ValueError"
    /\ \E i \in 1..Len(papers) : papers[i].f.title.v = ""

====
